---- MODULE Spec2Model ----
(***************************************************************************)
(* A model of src/Vessel.py: class vessel (constructor, cpa,               *)
(* bearingfromdxdy, courses_to_collide) and the module-level name v1 that  *)
(* courses_to_collide reads.                                               *)
(*                                                                         *)
(* Numbers.  The program computes in IEEE doubles.  The model computes in  *)
(* exact arithmetic on the extended rationals: a number is a pair <<n, d>> *)
(* in lowest terms with d >= 0, where d = 0 marks the non-finite doubles:  *)
(* <<0,0>> is NaN, <<1,0>> is +inf and <<-1,0>> is -inf (numpy divides by  *)
(* zero without raising).  Rounding error is not modelled, and the model   *)
(* has one zero.  A computed double that is 0 in exact arithmetic is, in   *)
(* the program, +0.0, -0.0 or rounding noise of about 1e-16 (np.cos of     *)
(* np.deg2rad(90) is 6.1e-17, 0 * np.cos(np.deg2rad(180)) is -0.0), so the *)
(* direction of a computed vector that is exactly (0, 0) is not determined *)
(* by the exact values: its bearing is kept as AnyAngle, which stands for  *)
(* whichever angle in [0, 360) the doubles give.                           *)
(*                                                                         *)
(* Norms.  np.linalg.norm(v) is irrational in general; the model keeps a   *)
(* norm by its square (fields Rcpa_sq, Speeds_sq), which determines it.    *)
(* Where the code divides by a norm (Dnorm) the inputs are chosen so that  *)
(* the norm is rational (positions on the corners of a 3 x 4 rectangle).   *)
(*                                                                         *)
(* Angles.  An angle in degrees is kept exactly as [q, t]: q a multiple of *)
(* 90 and t a number in [0, +inf) standing for q + atan(t) in degrees,     *)
(* with 0 <= atan(t) < 90.  [q |-> 0, t |-> NaN] is the NaN angle, and     *)
(* [q |-> -1, t |-> 0] is AnyAngle.                                        *)
(***************************************************************************)
EXTENDS Integers, Sequences, FiniteSets, TLC

VARIABLES vs, v1, args, last

vars == <<vs, v1, args, last>>

\* ----------------------------------------------------------------- bounds

\* Largest speed a constructed vessel is given.
MaxSpeed == 2
\* Largest minSpeed / maxSpeed passed to courses_to_collide.
MaxParamSpeed == 2
\* Largest |dx|, |dy| passed to bearingfromdxdy directly.
MaxDisp == 5
\* Largest positive factor a displacement is scaled by.
MaxScale == 3
\* Times t = p/r the range is compared at: |p| <= MaxT, 1 <= r <= MaxTDen.
MaxT == 4
MaxTDen == 2

\* ------------------------------------------------------ double arithmetic

Abs(x) == IF x < 0 THEN -x ELSE x

Sign(x) == IF x < 0 THEN -1 ELSE IF x > 0 THEN 1 ELSE 0

RECURSIVE Gcd(_, _)
Gcd(a, b) == IF b = 0 THEN a ELSE Gcd(b, a % b)

\* The number n/d in lowest terms; n/0 is NaN or a signed infinity.
Q(n, d) ==
    IF d = 0 THEN <<Sign(n), 0>>
    ELSE LET g == Gcd(Abs(n), Abs(d))
         IN  <<(Sign(d) * n) \div g, Abs(d) \div g>>

NaN == <<0, 0>>

IsNaN(a) == a = NaN

IsFinite(a) == a[2] # 0

RSign(a) == Sign(a[1])

RNeg(a) == <<-a[1], a[2]>>

RAbs(a) == <<Abs(a[1]), a[2]>>

\* a + b; inf + inf = inf, inf - inf = NaN, NaN + x = NaN.
RAdd(a, b) ==
    IF a[2] = 0 /\ b[2] = 0
    THEN (IF a = b THEN a ELSE NaN)
    ELSE Q(a[1] * b[2] + b[1] * a[2], a[2] * b[2])

RSub(a, b) == RAdd(a, RNeg(b))

\* a * b; 0 * inf = NaN.
RMul(a, b) == Q(a[1] * b[1], a[2] * b[2])

\* a / b as numpy divides doubles: x/0 = +-inf, 0/0 = NaN, no exception.
RDiv(a, b) ==
    IF b[1] < 0 THEN Q(-(a[1] * b[2]), a[2] * (-b[1]))
    ELSE Q(a[1] * b[2], a[2] * b[1])

\* a < b on finite numbers.
RLess(a, b) == a[1] * b[2] < b[1] * a[2]

\* ceil of a finite number.
Ceil(a) == -((-a[1]) \div a[2])

RECURSIVE SqrtSearch(_, _, _)
SqrtSearch(n, lo, hi) ==
    IF lo >= hi THEN lo
    ELSE LET mid == (lo + hi + 1) \div 2
         IN  IF mid * mid <= n THEN SqrtSearch(n, mid, hi)
             ELSE SqrtSearch(n, lo, mid - 1)

ISqrt(n) == SqrtSearch(n, 0, IF n < 46340 THEN n ELSE 46340)

\* sqrt of a number that is the square of a rational (NaN and +inf map to
\* themselves).
RSqrt(a) == <<ISqrt(a[1]), ISqrt(a[2])>>

\* ---------------------------------------------------------------- vectors

VSub(u, v) == <<RSub(u[1], v[1]), RSub(u[2], v[2])>>

VAdd(u, v) == <<RAdd(u[1], v[1]), RAdd(u[2], v[2])>>

VScale(u, x) == <<RMul(u[1], x), RMul(u[2], x)>>

dot(u, v) == RAdd(RMul(u[1], v[1]), RMul(u[2], v[2]))

\* np.linalg.norm(v), kept by its square.
norm_sq(v) == dot(v, v)

\* ----------------------------------------------------------------- angles

NaNAngle == [q |-> 0, t |-> NaN]

\* An angle in [0, 360) that the exact values do not determine: the bearing
\* of a computed vector that is (0, 0) in exact arithmetic.
AnyAngle == [q |-> -1, t |-> Q(0, 1)]

\* np.arctan2(y, x) * 180/np.pi for finite y and x, in (-180, 180];
\* arctan2(0, 0) = 0 (the zeros of integer arguments are +0.0).
arctan2_finite(y, x) ==
    LET sy == RSign(y)
        sx == RSign(x)
    IN  IF sy = 0 THEN [q |-> IF sx < 0 THEN 180 ELSE 0, t |-> Q(0, 1)]
        ELSE IF sy > 0
        THEN (IF sx > 0 THEN [q |-> 0, t |-> RDiv(y, x)]
              ELSE [q |-> 90, t |-> RDiv(RAbs(x), y)])
        ELSE (IF sx >= 0 THEN [q |-> -90, t |-> RDiv(x, RAbs(y))]
              ELSE [q |-> -180, t |-> RDiv(y, x)])

\* np.arctan2(y, x) * 180/np.pi.  With an infinite argument: (+-inf, finite)
\* is +-90, (+-inf, +inf) is +-45, (+-inf, -inf) is +-135, (finite, +inf) is
\* 0 and (finite, -inf) is 180 or, for y < 0, -180.
arctan2_deg(y, x) ==
    IF IsNaN(y) \/ IsNaN(x) THEN NaNAngle
    ELSE IF ~IsFinite(y) /\ ~IsFinite(x)
    THEN arctan2_finite(Q(RSign(y), 1), Q(RSign(x), 1))
    ELSE IF ~IsFinite(y) THEN arctan2_finite(Q(RSign(y), 1), Q(0, 1))
    ELSE IF ~IsFinite(x)
    THEN (IF RSign(x) > 0 THEN [q |-> 0, t |-> Q(0, 1)]
          ELSE [q |-> IF RSign(y) < 0 THEN -180 ELSE 180, t |-> Q(0, 1)])
    ELSE arctan2_finite(y, x)

\* angle + n for n a multiple of 90 (NaN + n = NaN).
AngAdd(a, n) == IF IsNaN(a.t) THEN a ELSE [q |-> a.q + n, t |-> a.t]

\* angle % m for m a positive multiple of 90, as Python's %: in [0, m).
AngMod(a, m) == IF IsNaN(a.t) THEN a ELSE [q |-> a.q % m, t |-> a.t]

\* The angle is exactly n degrees.
AngIs(a, n) == a = [q |-> n, t |-> Q(0, 1)]

\* lo <= angle < hi, for lo and hi multiples of 90.
AngInRange(a, lo, hi) == ~IsNaN(a.t) /\ lo <= a.q /\ a.q + 90 <= hi

\* np.sin(np.deg2rad(h)) and np.cos(np.deg2rad(h)) for h a multiple of 90.
SinDeg(h) == LET r == h % 360 IN IF r = 90 THEN 1 ELSE IF r = 270 THEN -1 ELSE 0

CosDeg(h) == LET r == h % 360 IN IF r = 0 THEN 1 ELSE IF r = 180 THEN -1 ELSE 0

\* ----------------------------------------------------------------- vessel

\* vessel.__init__
vessel(length, x, y, speed, heading) ==
    [length  |-> length,
     pos     |-> <<Q(x, 1), Q(y, 1)>>,
     speed   |-> speed,
     heading |-> heading,
     V       |-> <<Q(speed * SinDeg(heading), 1), Q(speed * CosDeg(heading), 1)>>]

\* A bug the bearing could have: the mathematical argument order.
bearingfromdxdy_swapped(dx, dy) == AngMod(AngAdd(arctan2_deg(dy, dx), 360), 360)

\* vessel.bearingfromdxdy
bearingfromdxdy(dx, dy) == AngMod(AngAdd(arctan2_deg(dx, dy), 360), 360)

\* self.bearingfromdxdy(v[0], v[1]) on a vector v the code has computed in
\* doubles: the bearing of v, and AnyAngle where v is (0, 0) in exact
\* arithmetic (the doubles are then signed zeros or rounding noise, and the
\* code returns 0, 180 or the direction of the noise).
bearing_of_computed(v) ==
    IF v = <<Q(0, 1), Q(0, 1)>> THEN AnyAngle ELSE bearingfromdxdy(v[1], v[2])

\* A bug the time to CPA could have: the sign dropped.
Tcpa_unsigned(Vr, D) ==
    RDiv(dot(Vr, D), RAdd(RMul(Vr[1], Vr[1]), RMul(Vr[2], Vr[2])))

\* vessel.cpa, line 100.
Tcpa(Vr, D) ==
    RDiv(RNeg(dot(Vr, D)), RAdd(RMul(Vr[1], Vr[1]), RMul(Vr[2], Vr[2])))

\* vessel.cpa
cpa(self, other) ==
    LET Vr   == VSub(other.V, self.V)
        D    == VSub(other.pos, self.pos)
        tcpa == Tcpa(Vr, D)
        Vesselcpa == <<RAdd(other.pos[1], RMul(other.V[1], tcpa)),
                       RAdd(other.pos[2], RMul(other.V[2], tcpa))>>
        OScpa     == <<RAdd(self.pos[1], RMul(self.V[1], tcpa)),
                       RAdd(self.pos[1], RMul(self.V[2], tcpa))>>
        CPA  == VSub(Vesselcpa, OScpa)
    IN  [tcpa      |-> tcpa,
         Vesselcpa |-> Vesselcpa,
         OScpa     |-> OScpa,
         Rcpa_sq   |-> norm_sq(CPA),
         Bcpa      |-> bearing_of_computed(CPA)]


\* N = 10. (the parameter N is overwritten).
NOverride == 10

\* np.arange(start, stop, step) on doubles: ceil((stop - start)/step) elements
\* start + k*step; a NaN length raises ValueError('arange: cannot compute
\* length') and an infinite one ValueError('Maximum allowed size exceeded').
arange(start, stop, step) ==
    LET value == RDiv(RSub(stop, start), step)
    IN  IF IsNaN(value) THEN [raised |-> "ValueError", a |-> <<>>]
        ELSE IF ~IsFinite(value) THEN [raised |-> "ValueError", a |-> <<>>]
        ELSE [raised |-> "None",
              a |-> [k \in 1 .. Ceil(value) |-> RAdd(start, RMul(Q(k - 1, 1), step))]]

\* -D * x + v1.V
CandidateV(D, x, V) == VAdd(VScale(D, RNeg(x)), V)

\* vessel.courses_to_collide; g is the binding of the module-level name v1:
\* <<>> when unbound, <<v>> when bound to the vessel v.  The result is the
\* exception raised ("None" for a normal return) and the returned arrays.
courses_to_collide(self, other, N, minSpeed, maxSpeed, g) ==
    LET D     == VSub(other.pos, self.pos)
        Dnorm == RSqrt(norm_sq(D))
        N_    == Q(NOverride, 1)
        max_a == RDiv(Q(maxSpeed, 1), Dnorm)
        min_a == RDiv(Q(minSpeed, 1), Dnorm)
        ar    == arange(min_a, max_a, RDiv(RSub(max_a, min_a), N_))
        a     == ar.a
        Vt    == [k \in 1 .. Len(a) |-> CandidateV(D, a[k], g[1].V)]
    IN  IF ar.raised # "None"
        THEN [raised |-> ar.raised, max_a |-> max_a, min_a |-> min_a,
              Speeds_sq |-> <<>>, Headings |-> <<>>]
        ELSE IF Len(a) > 0 /\ g = <<>>
        THEN [raised |-> "NameError", max_a |-> max_a, min_a |-> min_a,
              Speeds_sq |-> <<>>, Headings |-> <<>>]
        ELSE [raised |-> "None", max_a |-> max_a, min_a |-> min_a,
              Speeds_sq |-> [k \in 1 .. Len(a) |-> norm_sq(Vt[k])],
              Headings  |-> [k \in 1 .. Len(a) |-> bearing_of_computed(Vt[k])]]

\* ----------------------------------------------------------------- inputs

Lengths == {10}

\* Corners of a 3 x 4 rectangle: every distance between two of them is an
\* integer (0, 3, 4 or 5).
Xs == {0, 3}

Ys == {0, 4}

SpeedSet == 0 .. MaxSpeed

HeadingSet == {0, 90, 180, 270}

Vessels ==
    {vessel(l, x, y, s, h) : l \in Lengths, x \in Xs, y \in Ys,
                              s \in SpeedSet, h \in HeadingSet}

Disps == (-MaxDisp) .. MaxDisp

NoCall == [op |-> "none"]

\* The defaults of courses_to_collide's parameters.
DefaultArgs == [N |-> 10, minSpeed |-> 2, maxSpeed |-> 25]

\* ------------------------------------------------------------------- cpa

InitCpa ==
    /\ vs \in [1 .. 2 -> Vessels]
    /\ v1 = 0
    /\ args = DefaultArgs
    /\ last = NoCall

\* vs[i].cpa(vs[j])
CallCpa(i, j) ==
    /\ last' = [op |-> "cpa", self |-> i, vessel |-> j, ret |-> cpa(vs[i], vs[j])]
    /\ UNCHANGED <<vs, v1, args>>

NextCpa == \E i \in 1 .. 2, j \in 1 .. 2 : CallCpa(i, j)

SpecCpa == InitCpa /\ [][NextCpa]_vars

\* -------------------------------------------------------------- bearing

InitBearing ==
    /\ vs \in [1 .. 2 -> {vessel(10, 0, 0, 0, 0)}]
    /\ v1 = 0
    /\ args = DefaultArgs
    /\ last = NoCall

\* vs[i].bearingfromdxdy(dx, dy)
CallBearing(i, dx, dy) ==
    /\ last' = [op |-> "bearingfromdxdy", self |-> i, dx |-> dx, dy |-> dy,
                ret |-> bearingfromdxdy(Q(dx, 1), Q(dy, 1))]
    /\ UNCHANGED <<vs, v1, args>>

NextBearing == \E i \in 1 .. 2, dx \in Disps, dy \in Disps : CallBearing(i, dx, dy)

SpecBearing == InitBearing /\ [][NextBearing]_vars

\* --------------------------------------------------- courses_to_collide

NSet == {0, 3, 10}

ParamSpeeds == 0 .. MaxParamSpeed

\* The vessels passed as the argument (the target): its velocity reaches the
\* computation only through the name v1.
Targets ==
    {vessel(l, x, y, 1, 90) : l \in Lengths, x \in Xs, y \in Ys}

\* What the name v1 is bound to in the module's globals.
Binding == IF v1 = 0 THEN <<>> ELSE <<vs[v1]>>

\* A vessel that is neither the receiver nor the argument of the call.
Bystander == vessel(10, 3, 4, 2, 180)

\* vs[1] is the receiver (ownship), vs[2] the argument (target), vs[3] a
\* vessel not passed to the call; args are the N, minSpeed and maxSpeed the
\* caller passes.  The module itself defines no v1.
InitCtc ==
    /\ vs \in {<<o, t, Bystander>> : o \in Vessels, t \in Targets}
    /\ v1 = 0
    /\ args \in [N : NSet, minSpeed : ParamSpeeds, maxSpeed : ParamSpeeds]
    /\ last = NoCall

\* The caller's module-level assignment v1 = vs[k].
BindV1(k) ==
    /\ v1' = k
    /\ UNCHANGED <<vs, args, last>>

\* vs[1].courses_to_collide(vs[2], N, minSpeed, maxSpeed); the record keeps
\* the arguments, the binding of v1 the call found and the outcome.
CallCtc ==
    /\ last' = [op |-> "courses_to_collide", self |-> 1, vessel |-> 2,
                N |-> args.N, minSpeed |-> args.minSpeed,
                maxSpeed |-> args.maxSpeed, v1 |-> v1,
                ret |-> courses_to_collide(vs[1], vs[2], args.N, args.minSpeed,
                                           args.maxSpeed, Binding)]
    /\ UNCHANGED <<vs, v1, args>>

NextCtc ==
    \/ \E k \in 1 .. 3 : BindV1(k)
    \/ CallCtc

SpecCtc == InitCtc /\ [][NextCtc]_vars

\* ------------------------------------------------------- claims on cpa

IsCpa == last.op = "cpa"

Own == vs[last.self]

Tgt == vs[last.vessel]

RelV == VSub(Tgt.V, Own.V)

RelD == VSub(Tgt.pos, Own.pos)

Zero2 == <<Q(0, 1), Q(0, 1)>>

\* |D + Vr * t|^2: the squared range between the two vessels at time t.
RangeSqAt(t) == norm_sq(VAdd(RelD, VScale(RelV, t)))

\* The times the range at tcpa is compared with: a grid around 0 and the
\* same grid around tcpa.
Offsets == {Q(p, r) : p \in (-MaxT) .. MaxT, r \in 1 .. MaxTDen}

TimesAround(tc) == Offsets \cup {RAdd(tc, o) : o \in Offsets}

\* C1: when the velocities differ, cpa returns
\* ownship_at_cpa = (P_own.x + V_own.x * tcpa, P_own.y + V_own.y * tcpa).
C1_OwnshipAtCpa ==
    (IsCpa /\ RelV # Zero2) =>
        last.ret.OScpa = VAdd(Own.pos, VScale(Own.V, last.ret.tcpa))

\* C2: when Vr is nonzero, tcpa = -(Vr.D)/(Vr.Vr), the squared range at every
\* other time is strictly larger than at tcpa, and tcpa is negative exactly
\* when Vr.D > 0.
C2_TcpaMinimizesRange ==
    (IsCpa /\ RelV # Zero2) =>
        LET tc == last.ret.tcpa
        IN  /\ IsFinite(tc)
            /\ tc = RDiv(RNeg(dot(RelV, RelD)), dot(RelV, RelV))
            /\ \A t \in TimesAround(tc) :
                   t # tc => RLess(RangeSqAt(tc), RangeSqAt(t))
            /\ (RSign(tc) < 0) <=> (RSign(dot(RelV, RelD)) > 0)

\* A call with crossing courses whose CPA lies in the past at a time that is
\* no integer.
C2_Witness ==
    /\ IsCpa
    /\ RelV[1] # Q(0, 1)
    /\ RelV[2] # Q(0, 1)
    /\ RSign(last.ret.tcpa) < 0
    /\ last.ret.tcpa[2] > 1

\* C3: when the velocities are identical, cpa returns no NaN or infinity:
\* tcpa = 0 and the range is the distance between the current positions.
C3_DegenerateIsFinite ==
    (IsCpa /\ RelV = Zero2) =>
        /\ last.ret.tcpa = Q(0, 1)
        /\ last.ret.Rcpa_sq = norm_sq(RelD)
        /\ IsFinite(last.ret.Vesselcpa[1]) /\ IsFinite(last.ret.Vesselcpa[2])
        /\ IsFinite(last.ret.OScpa[1]) /\ IsFinite(last.ret.OScpa[2])
        /\ ~IsNaN(last.ret.Bcpa.t)

\* C4: when the velocities differ, A.cpa(B) and B.cpa(A) return the same tcpa
\* and the same range, opposite displacements at CPA, and bearings 180
\* degrees apart (read for a nonzero displacement at CPA: a zero displacement
\* has no direction to reverse, and the bearing the code gives it is that of
\* signed zeros or rounding noise).
C4_SwapSymmetry ==
    (IsCpa /\ RelV # Zero2) =>
        LET ab == last.ret
            ba == cpa(Tgt, Own)
        IN  /\ ba.tcpa = ab.tcpa
            /\ ba.Rcpa_sq = ab.Rcpa_sq
            /\ VSub(ba.Vesselcpa, ba.OScpa) = VSub(ab.OScpa, ab.Vesselcpa)
            /\ (VSub(ab.Vesselcpa, ab.OScpa) # Zero2) =>
                   ba.Bcpa = AngMod(AngAdd(ab.Bcpa, 180), 360)

\* ------------------------------------- claims on courses_to_collide

IsCtc == last.op = "courses_to_collide"

Returned == IsCtc /\ last.ret.raised = "None"

\* (speed * sin(heading), speed * cos(heading)), the velocity vessel.__init__
\* derives, for a speed kept by its square and an exact angle q + atan(p/r):
\* sin and cos of atan(p/r) are p/h and r/h with h = sqrt(p*p + r*r).  A zero
\* speed gives the zero velocity at any heading.
VelocityOf(speed_sq, heading) ==
    IF speed_sq = Q(0, 1) THEN <<Q(0, 1), Q(0, 1)>> ELSE
    LET p  == heading.t[1]
        r  == heading.t[2]
        k  == RSqrt(RDiv(speed_sq, Q(p * p + r * r, 1)))
        so == RMul(k, Q(p, 1))
        co == RMul(k, Q(r, 1))
    IN  CASE heading.q = 0   -> <<so, co>>
          [] heading.q = 90  -> <<co, RNeg(so)>>
          [] heading.q = 180 -> <<RNeg(so), RNeg(co)>>
          [] heading.q = 270 -> <<RNeg(co), so>>

\* The velocity derived from the k-th returned (speed, heading) pair.
DerivedV(k) == VelocityOf(last.ret.Speeds_sq[k], last.ret.Headings[k])

\* |D| for the call's two vessels (an integer on the inputs drawn).
DnormOf == RSqrt(norm_sq(RelD))

\* a_k = min_a + k * (max_a - min_a) / n for k = 0, 1, ...
SampleA(k, n) ==
    LET min_a == RDiv(Q(last.minSpeed, 1), DnormOf)
        max_a == RDiv(Q(last.maxSpeed, 1), DnormOf)
    IN  RAdd(min_a, RMul(Q(k, 1), RDiv(RSub(max_a, min_a), Q(n, 1))))

\* The velocity derived from the k-th returned pair carries the target from
\* its position to ownship's current position in one unit of time.
LandsOnOwnshipAtOne(k) == VAdd(Tgt.pos, DerivedV(k)) = Own.pos

\* The velocity derived from the k-th returned pair brings the target onto
\* the moving ownship at some time t > 0: the target's velocity relative to
\* ownship points along the line from the target to ownship, which is
\* Vt - V_ownship = -a * D with a > 0, closing the displacement at t = 1/a.
MeetsOwnship(k) ==
    LET W == VSub(DerivedV(k), Own.V)
    IN  /\ RSub(RMul(W[1], RelD[2]), RMul(W[2], RelD[1])) = Q(0, 1)
        /\ RSign(dot(W, RelD)) < 0

\* C5: every pair returned for vessels at distinct positions and positive
\* speed limits moves the target onto ownship: onto ownship's current
\* position in one unit of time, as the claim words it, or onto the moving
\* ownship in the normalized time 1/a_k of the derivation Vt = -D * a_k +
\* V_ownship the claim summarises.
C5_PairsIntercept ==
    (Returned /\ RelD # Zero2 /\ last.minSpeed > 0 /\ last.maxSpeed > 0) =>
        \A k \in 1 .. Len(last.ret.Speeds_sq) :
            LandsOnOwnshipAtOne(k) \/ MeetsOwnship(k)

\* C6: for N >= 1, minSpeed < maxSpeed and distinct positions, a call that
\* returns gives exactly N pairs, the k-th from a_k = min_a + k*(max_a - min_a)/N.
C6_ExactlyNPairs ==
    (Returned /\ last.N >= 1 /\ last.minSpeed < last.maxSpeed /\ RelD # Zero2) =>
        /\ Len(last.ret.Speeds_sq) = last.N
        /\ Len(last.ret.Headings) = last.N
        /\ \A k \in 1 .. Len(last.ret.Speeds_sq) :
               LET Vt == CandidateV(RelD, SampleA(k - 1, last.N), vs[last.v1].V)
               IN  /\ last.ret.Speeds_sq[k] = norm_sq(Vt)
                   /\ last.ret.Headings[k] = bearing_of_computed(Vt)

SameCall(c, d) ==
    /\ c.op = "courses_to_collide" /\ d.op = "courses_to_collide"
    /\ c.self = d.self /\ c.vessel = d.vessel
    /\ c.N = d.N /\ c.minSpeed = d.minSpeed /\ c.maxSpeed = d.maxSpeed

\* C7: two calls that return and agree on receiver, argument, N, minSpeed and
\* maxSpeed return equal sequences.
C7_FunctionOfArguments ==
    [][(SameCall(last, last') /\ last.ret.raised = "None"
                              /\ last'.ret.raised = "None")
          => last'.ret = last.ret]_vars

\* C8: at coincident positions the call fails with CoincidentVessels and
\* returns no sequence.
C8_CoincidentFails ==
    (IsCtc /\ RelD = Zero2) =>
        /\ last.ret.raised = "CoincidentVessels"
        /\ last.ret.Speeds_sq = <<>>
        /\ last.ret.Headings = <<>>

\* C9: with minSpeed > maxSpeed or N <= 0 the call fails and returns no
\* (speed, heading) pairs at all.
C9_InvalidRangeFails ==
    (IsCtc /\ (last.minSpeed > last.maxSpeed \/ last.N <= 0)) =>
        /\ last.ret.raised # "None"
        /\ last.ret.Speeds_sq = <<>>
        /\ last.ret.Headings = <<>>

\* --------------------------------------------------- claims on bearing

IsBearing == last.op = "bearingfromdxdy"

Scales == {Q(k, r) : k \in 1 .. MaxScale, r \in 1 .. MaxScale}

\* C10: bearingfromdxdy returns b with 0 <= b < 360, (0,1) gives 0, (1,0)
\* gives 90, (0,-1) gives 180, (-1,0) gives 270, and scaling the displacement
\* by a positive k leaves b unchanged.
C10_BearingCompass ==
    IsBearing =>
        LET b == last.ret
        IN  /\ AngInRange(b, 0, 360)
            /\ (last.dx = 0 /\ last.dy > 0) => AngIs(b, 0)
            /\ (last.dx > 0 /\ last.dy = 0) => AngIs(b, 90)
            /\ (last.dx = 0 /\ last.dy < 0) => AngIs(b, 180)
            /\ (last.dx < 0 /\ last.dy = 0) => AngIs(b, 270)
            /\ \A k \in Scales :
                   bearingfromdxdy(RMul(k, Q(last.dx, 1)), RMul(k, Q(last.dy, 1))) = b

\* A bearing taken in the third quadrant, off the axes and the diagonal,
\* where arctan2 is negative.
C10_Witness ==
    /\ IsBearing
    /\ last.dx < 0 /\ last.dy < 0 /\ last.dx # last.dy
    /\ last.ret.q = 180
    /\ last.ret.t # Q(0, 1)

====
